---------------------------- MODULE Spec2Model ----------------------------
(***************************************************************************)
(* A model of the UM-32 "Universal Machine" simulator of um.py: the bit    *)
(* codec, the fourteen operators, the array pool and the dispatch loop.    *)
(*                                                                         *)
(* Python integers are unbounded, and the machine's platters are 32 bits   *)
(* wide, so an integer is modelled as the sequence of its base-256 digits, *)
(* least significant first, without leading zero digits (0 is << >>).      *)
(* Python lists are mutable objects: the machine's dictionary `platter`    *)
(* maps an identifier to a reference, and `heap` maps a reference to the   *)
(* list's elements, so that two identifiers naming one list can be told    *)
(* from two identifiers naming equal lists.                                *)
(***************************************************************************)
EXTENDS Integers, Sequences, FiniteSets, TLC

(***************************************************************************)
(* Bounds of the model.                                                    *)
(***************************************************************************)
\* The longest program image drawn from the instruction alphabet.
MaxProg == 2
\* The most cycles of the dispatch loop a run is followed for.
MaxCycles == 13
\* The longest array ALLOC is followed for.
MaxArray == 3

(***************************************************************************)
(* Python's int: non-negative integers as little-endian base-256 digits.   *)
(***************************************************************************)
Base == 256

RECURSIVE Norm(_)
Norm(s) ==
    IF s = << >> THEN << >>
    ELSE IF s[Len(s)] = 0 THEN Norm(SubSeq(s, 1, Len(s) - 1))
    ELSE s

RECURSIVE OfNat(_)
OfNat(n) == IF n = 0 THEN << >> ELSE <<n % Base>> \o OfNat(n \div Base)

\* The value of a digit sequence of at most three digits.
RECURSIVE NatOf(_)
NatOf(s) == IF s = << >> THEN 0 ELSE Head(s) + Base * NatOf(Tail(s))

IsSmall(s) == Len(s) <= 3

Digit(s, i) == IF i <= Len(s) THEN s[i] ELSE 0

RECURSIVE AddC(_, _, _)
AddC(x, y, carry) ==
    IF x = << >> /\ y = << >>
    THEN IF carry = 0 THEN << >> ELSE <<carry>>
    ELSE LET t == Digit(x, 1) + Digit(y, 1) + carry
         IN  <<t % Base>>
             \o AddC(IF x = << >> THEN << >> ELSE Tail(x),
                     IF y = << >> THEN << >> ELSE Tail(y),
                     t \div Base)

NAdd(x, y) == AddC(x, y, 0)

\* x < y, on normalised digit sequences.
RECURSIVE LessFrom(_, _, _)
LessFrom(x, y, i) ==
    IF i = 0 THEN FALSE
    ELSE IF x[i] # y[i] THEN x[i] < y[i]
    ELSE LessFrom(x, y, i - 1)

NLess(x, y) ==
    IF Len(x) # Len(y) THEN Len(x) < Len(y) ELSE LessFrom(x, y, Len(x))

\* x - y for x >= y.
RECURSIVE SubB(_, _, _)
SubB(x, y, borrow) ==
    IF x = << >> THEN << >>
    ELSE LET t == Head(x) - Digit(y, 1) - borrow
         IN  <<IF t < 0 THEN t + Base ELSE t>>
             \o SubB(Tail(x),
                     IF y = << >> THEN << >> ELSE Tail(y),
                     IF t < 0 THEN 1 ELSE 0)

NSub(x, y) == Norm(SubB(x, y, 0))

RECURSIVE MulDigit(_, _, _)
MulDigit(x, d, carry) ==
    IF x = << >>
    THEN IF carry = 0 THEN << >> ELSE <<carry>>
    ELSE LET t == Head(x) * d + carry
         IN  <<t % Base>> \o MulDigit(Tail(x), d, t \div Base)

RECURSIVE MulAcc(_, _)
MulAcc(x, y) ==
    IF y = << >> THEN << >>
    ELSE NAdd(MulDigit(x, Head(y), 0), <<0>> \o MulAcc(x, Tail(y)))

NMul(x, y) == Norm(MulAcc(x, y))

RECURSIVE Pow2(_)
Pow2(k) == IF k = 0 THEN 1 ELSE 2 * Pow2(k - 1)

\* x << k
RECURSIVE Zeros(_)
Zeros(n) == IF n = 0 THEN << >> ELSE <<0>> \o Zeros(n - 1)

NShl(x, k) ==
    IF x = << >> THEN << >>
    ELSE Zeros(k \div 8) \o Norm(MulDigit(x, Pow2(k % 8), 0))

\* x >> k
RECURSIVE ShrDigits(_, _)
ShrDigits(x, r) ==
    IF x = << >> THEN << >>
    ELSE <<(Head(x) \div Pow2(r)) + (Digit(x, 2) % Pow2(r)) * Pow2(8 - r)>>
         \o ShrDigits(Tail(x), r)

NShr(x, k) ==
    IF k \div 8 >= Len(x) THEN << >>
    ELSE Norm(ShrDigits(SubSeq(x, (k \div 8) + 1, Len(x)), k % 8))

\* x & y
RECURSIVE AndDigit(_, _)
AndDigit(a, b) ==
    IF a = 0 \/ b = 0 THEN 0
    ELSE (a % 2) * (b % 2) + 2 * AndDigit(a \div 2, b \div 2)

RECURSIVE AndDigits(_, _)
AndDigits(x, y) ==
    IF x = << >> \/ y = << >> THEN << >>
    ELSE <<AndDigit(Head(x), Head(y))>> \o AndDigits(Tail(x), Tail(y))

NAnd(x, y) == Norm(AndDigits(x, y))

\* divmod(x, y) for y > 0, by long division digit by digit, each quotient
\* digit found by bisection: <<x // y, x % y>>.
RECURSIVE QDigit(_, _, _, _)
QDigit(r, y, d, bit) ==
    IF bit = 0 THEN d
    ELSE IF NLess(r, Norm(MulDigit(y, d + bit, 0)))
         THEN QDigit(r, y, d, bit \div 2)
         ELSE QDigit(r, y, d + bit, bit \div 2)

RECURSIVE DivStep(_, _, _, _, _)
DivStep(x, y, i, q, r) ==
    IF i = 0 THEN <<Norm(q), r>>
    ELSE LET r2 == Norm(<<x[i]>> \o r)
             d  == QDigit(r2, y, 0, Base \div 2)
         IN  DivStep(x, y, i - 1, <<d>> \o q, NSub(r2, Norm(MulDigit(y, d, 0))))

DivMod(x, y) == DivStep(x, y, Len(x), << >>, << >>)

NFloorDiv(x, y) == DivMod(x, y)[1]

NMod(x, y) == DivMod(x, y)[2]

(***************************************************************************)
(* Module constants of um.py.                                              *)
(***************************************************************************)
Zero == << >>
One == <<1>>

WORDSIZE == 32

\* TWO_32 = 1 << WORDSIZE
TWO_32 == NShl(One, WORDSIZE)

OP2NAME ==
    <<"MOVEIF", "INDEX", "STORE", "ADD", "MULT", "DIV", "NAND", "HALT",
      "ALLOC", "FREE", "OUTPUT", "INPUT", "JUMP", "LOAD">>

\* NAME2OP[name], the opcode of an operator name (OP2NAME is indexed from 0
\* in the source, from 1 here).
NAME2OP(name) == (CHOOSE k \in 1..Len(OP2NAME) : OP2NAME[k] = name) - 1

None == "None"

(***************************************************************************)
(* The bit codec.                                                          *)
(***************************************************************************)
\* bits with the start counted from the least significant bit.
bitsFromRight(w, start, l) ==
    NAnd(NShr(w, start), NSub(NShl(One, l), One))

\* bits(w, start, l) = w >> (WORDSIZE - start - l) & ((1 << l) - 1)
bits(w, start, l) ==
    NAnd(NShr(w, WORDSIZE - start - l), NSub(NShl(One, l), One))

\* decodeInstruction with the three registers read one bit too high.
decodeInstructionShifted(i) ==
    LET operator == bits(i, 0, 4)
    IN  IF operator = OfNat(NAME2OP("LOAD"))
        THEN <<operator, bits(i, 4, 3), bits(i, 7, 25), None>>
        ELSE <<operator, bits(i, 22, 3), bits(i, 25, 3), bits(i, 28, 3)>>

decodeInstruction(i) ==
    LET operator == bits(i, 0, 4)
    IN  IF operator = OfNat(NAME2OP("LOAD"))
        THEN <<operator, bits(i, 4, 3), bits(i, 7, 25), None>>
        ELSE <<operator, bits(i, 23, 3), bits(i, 26, 3), bits(i, 29, 3)>>

\* '{0:0<width>b}'.format(n): the binary digits of n, most significant
\* first, padded with zeros on the left to at least `width` characters.
RECURSIVE BinDigit(_, _)
BinDigit(d, k) ==
    IF k = 0 THEN << >> ELSE BinDigit(d \div 2, k - 1) \o <<d % 2>>

RECURSIVE BinDigits(_)
BinDigits(n) ==
    IF n = << >> THEN << >>
    ELSE BinDigits(Tail(n)) \o BinDigit(Head(n), 8)

RECURSIVE StripZeros(_)
StripZeros(s) ==
    IF s # << >> /\ Head(s) = 0 THEN StripZeros(Tail(s)) ELSE s

FormatB(n, width) ==
    LET s == IF n = << >> THEN <<0>> ELSE StripZeros(BinDigits(n))
    IN  IF Len(s) < width THEN Zeros(width - Len(s)) \o s ELSE s

\* int(str, 2)
RECURSIVE BinValue(_)
BinValue(s) ==
    IF s = << >> THEN 0 ELSE 2 * BinValue(SubSeq(s, 1, Len(s) - 1)) + s[Len(s)]

RECURSIVE ParseDigits(_)
ParseDigits(s) ==
    IF Len(s) <= 8 THEN <<BinValue(s)>>
    ELSE <<BinValue(SubSeq(s, Len(s) - 7, Len(s)))>>
         \o ParseDigits(SubSeq(s, 1, Len(s) - 8))

IntBase2(s) == Norm(ParseDigits(s))

encodeInstruction(operator, a, b, c) ==
    IntBase2(FormatB(operator, 4) \o Zeros(19)
             \o FormatB(a, 3) \o FormatB(b, 3) \o FormatB(c, 3))

encodeValue(operator, reg, val) ==
    IntBase2(FormatB(operator, 4) \o FormatB(reg, 3) \o FormatB(val, 25))

\* assemble(instructions): an instruction is <<opname, a, b, c>> or
\* <<"LOAD", a, val>>, its operands Python ints.
assemble1(i) ==
    IF i[1] = "LOAD"
    THEN encodeValue(OfNat(NAME2OP("LOAD")), i[2], i[3])
    ELSE encodeInstruction(OfNat(NAME2OP(i[1])), i[2], i[3], i[4])

assemble(instructions) ==
    [k \in 1..Len(instructions) |-> assemble1(instructions[k])]

(***************************************************************************)
(* The machine.  A machine state is a record:                              *)
(*   platter    the dictionary: identifier -> reference of its list        *)
(*   heap       reference -> the list's elements                           *)
(*   finger     the execution finger                                       *)
(*   nextAlloc  the next identifier ALLOC hands out                        *)
(*   gpr        the eight registers, indexed 0..7                          *)
(*   out        the characters printed so far (code points)                *)
(*   getch      what the console delivers at the next read                 *)
(*   exc        the exception raised, "" when none                         *)
(* An operator maps a machine state to the machine state after it.         *)
(***************************************************************************)
Raise(s, e) == [s EXCEPT !.exc = e]

\* A reference no live list has.
NewRef(heap) == CHOOSE r \in 1..(Cardinality(DOMAIN heap) + 1) : r \notin DOMAIN heap

\* Python frees a list once nothing refers to it.
Collect(s) ==
    [s EXCEPT !.heap = [r \in {s.platter[k] : k \in DOMAIN s.platter} |-> s.heap[r]]]

\* dict[key] = ref
Bind(platter, key, ref) ==
    [k \in DOMAIN platter \cup {key} |-> IF k = key THEN ref ELSE platter[k]]

\* Whether list[k] is an element of the list.
InRange(list, k) == IsSmall(k) /\ NatOf(k) < Len(list)

\* The elements of the array an identifier names.
ArrayOf(s, id) == s.heap[s.platter[id]]

conditionalMove(s, a, b, c) ==
    IF s.gpr[c] # Zero THEN [s EXCEPT !.gpr[a] = s.gpr[b]] ELSE s

\* arrayIndex that answers 0 for an offset outside the array.
arrayIndexLenient(s, a, b, c) ==
    IF s.gpr[b] \notin DOMAIN s.platter THEN Raise(s, "KeyError")
    ELSE IF ~InRange(ArrayOf(s, s.gpr[b]), s.gpr[c]) THEN [s EXCEPT !.gpr[a] = Zero]
    ELSE [s EXCEPT !.gpr[a] = ArrayOf(s, s.gpr[b])[NatOf(s.gpr[c]) + 1]]

arrayIndex(s, a, b, c) ==
    IF s.gpr[b] \notin DOMAIN s.platter THEN Raise(s, "KeyError")
    ELSE IF ~InRange(ArrayOf(s, s.gpr[b]), s.gpr[c]) THEN Raise(s, "IndexError")
    ELSE [s EXCEPT !.gpr[a] = ArrayOf(s, s.gpr[b])[NatOf(s.gpr[c]) + 1]]

\* arrayAmendment that stores the value in every platter of the array.
arrayAmendmentFill(s, a, b, c) ==
    IF s.gpr[a] \notin DOMAIN s.platter THEN Raise(s, "KeyError")
    ELSE IF ~InRange(ArrayOf(s, s.gpr[a]), s.gpr[b]) THEN Raise(s, "IndexError")
    ELSE [s EXCEPT !.heap[s.platter[s.gpr[a]]] =
                        [k \in 1..Len(ArrayOf(s, s.gpr[a])) |-> s.gpr[c]]]

arrayAmendment(s, a, b, c) ==
    IF s.gpr[a] \notin DOMAIN s.platter THEN Raise(s, "KeyError")
    ELSE IF ~InRange(ArrayOf(s, s.gpr[a]), s.gpr[b]) THEN Raise(s, "IndexError")
    ELSE [s EXCEPT !.heap[s.platter[s.gpr[a]]][NatOf(s.gpr[b]) + 1] = s.gpr[c]]

\* addition without the reduction modulo 2^32.
additionNoWrap(s, a, b, c) ==
    [s EXCEPT !.gpr[a] = NAdd(s.gpr[b], s.gpr[c])]

addition(s, a, b, c) ==
    [s EXCEPT !.gpr[a] = NMod(NAdd(s.gpr[b], s.gpr[c]), TWO_32)]

multiplication(s, a, b, c) ==
    [s EXCEPT !.gpr[a] = NMod(NMul(s.gpr[b], s.gpr[c]), TWO_32)]

\* division that answers 0 for a zero divisor.
divisionZeroIsZero(s, a, b, c) ==
    IF s.gpr[c] = Zero THEN [s EXCEPT !.gpr[a] = Zero]
    ELSE [s EXCEPT !.gpr[a] = NMod(NFloorDiv(s.gpr[b], s.gpr[c]), TWO_32)]

division(s, a, b, c) ==
    IF s.gpr[c] = Zero THEN Raise(s, "ZeroDivisionError")
    ELSE [s EXCEPT !.gpr[a] = NMod(NFloorDiv(s.gpr[b], s.gpr[c]), TWO_32)]

\* (~x) % m for x >= 0 and m > 0: ~x is -(x + 1), and Python's % takes the
\* sign of the divisor.
InvertMod(x, m) ==
    LET r == NMod(NAdd(x, One), m)
    IN  IF r = Zero THEN Zero ELSE NSub(m, r)

\* notAnd without the complement.
notAndPlain(s, a, b, c) ==
    [s EXCEPT !.gpr[a] = NMod(NAnd(s.gpr[b], s.gpr[c]), TWO_32)]

notAnd(s, a, b, c) ==
    [s EXCEPT !.gpr[a] = InvertMod(NAnd(s.gpr[b], s.gpr[c]), TWO_32)]

\* "universal machine stops computation." and the newline print() adds
HaltMessage ==
    <<117, 110, 105, 118, 101, 114, 115, 97, 108, 32, 109, 97, 99, 104, 105,
      110, 101, 32, 115, 116, 111, 112, 115, 32, 99, 111, 109, 112, 117, 116,
      97, 116, 105, 111, 110, 46, 10>>

\* halt that also clears the registers.
haltClears(s, a, b, c) ==
    [s EXCEPT !.out = @ \o HaltMessage, !.gpr = [k \in 0..7 |-> Zero]]

halt(s, a, b, c) == [s EXCEPT !.out = @ \o HaltMessage]

\* allocation without the advance of nextAlloc.
allocationSameId(s, a, b, c) ==
    LET r == NewRef(s.heap)
    IN  Collect([s EXCEPT
            !.heap = [x \in DOMAIN s.heap \cup {r} |->
                         IF x = r THEN [k \in 1..NatOf(s.gpr[c]) |-> Zero]
                         ELSE s.heap[x]],
            !.platter = Bind(s.platter, s.nextAlloc, r),
            !.gpr[b] = s.nextAlloc])

allocation(s, a, b, c) ==
    LET r == NewRef(s.heap)
    IN  Collect([s EXCEPT
            !.heap = [x \in DOMAIN s.heap \cup {r} |->
                         IF x = r THEN [k \in 1..NatOf(s.gpr[c]) |-> Zero]
                         ELSE s.heap[x]],
            !.platter = Bind(s.platter, s.nextAlloc, r),
            !.gpr[b] = s.nextAlloc,
            !.nextAlloc = NAdd(s.nextAlloc, One)])

abandonment(s, a, b, c) ==
    IF s.gpr[c] \notin DOMAIN s.platter THEN Raise(s, "KeyError")
    ELSE Collect([s EXCEPT
            !.platter = [k \in DOMAIN s.platter \ {s.gpr[c]} |-> s.platter[k]]])

\* chr(n) takes a code point up to 0x10FFFF; beyond it raises ValueError,
\* and beyond a C int OverflowError.
MaxCodePoint == 1114111
MaxCInt == 2147483647

output(s, a, b, c) ==
    IF NLess(OfNat(MaxCInt), s.gpr[c]) THEN Raise(s, "OverflowError")
    ELSE IF NLess(OfNat(MaxCodePoint), s.gpr[c]) THEN Raise(s, "ValueError")
    ELSE [s EXCEPT !.out = Append(@, NatOf(s.gpr[c]))]

\* What sys.stdin.read(1) returns at the end of input: ''.
EndOfInput == -1

input(s, a, b, c) ==
    IF s.getch = EndOfInput THEN Raise(s, "TypeError")
    ELSE IF s.getch = 13
         THEN [s EXCEPT !.out = Append(@, 10), !.gpr[c] = OfNat(10)]
    ELSE IF s.getch = 4 THEN [s EXCEPT !.gpr[c] = NSub(TWO_32, One)]
    ELSE [s EXCEPT !.out = Append(@, s.getch), !.gpr[c] = OfNat(s.getch)]

\* loadProgram with the '0' array made another name of the source list.
loadProgramAlias(s, a, b, c) ==
    IF s.gpr[b] # Zero
    THEN IF s.gpr[b] \notin DOMAIN s.platter THEN Raise(s, "AssertionError")
         ELSE Collect([s EXCEPT
                  !.platter = Bind(s.platter, Zero, s.platter[s.gpr[b]]),
                  !.finger = s.gpr[c]])
    ELSE [s EXCEPT !.finger = s.gpr[c]]

\* loadProgram with the finger left as the cycle advanced it.
loadProgramKeepsFinger(s, a, b, c) ==
    IF s.gpr[b] # Zero
    THEN IF s.gpr[b] \notin DOMAIN s.platter THEN Raise(s, "AssertionError")
         ELSE LET r == NewRef(s.heap)
              IN  Collect([s EXCEPT
                      !.heap = [x \in DOMAIN s.heap \cup {r} |->
                                   IF x = r THEN ArrayOf(s, s.gpr[b])
                                   ELSE s.heap[x]],
                      !.platter = Bind(s.platter, Zero, r),
                      !.finger = NAdd(s.gpr[c], One)])
    ELSE [s EXCEPT !.finger = NAdd(s.gpr[c], One)]

loadProgram(s, a, b, c) ==
    IF s.gpr[b] # Zero
    THEN IF s.gpr[b] \notin DOMAIN s.platter THEN Raise(s, "AssertionError")
         ELSE LET r == NewRef(s.heap)
              IN  Collect([s EXCEPT
                      !.heap = [x \in DOMAIN s.heap \cup {r} |->
                                   IF x = r THEN ArrayOf(s, s.gpr[b])
                                   ELSE s.heap[x]],
                      !.platter = Bind(s.platter, Zero, r),
                      !.finger = s.gpr[c]])
    ELSE [s EXCEPT !.finger = s.gpr[c]]

orthography(s, a, val, dummy) == [s EXCEPT !.gpr[a] = val]

\* OPCODE2FN with an operator run for the numbers that have no entry.
OPCODE2FNLenient(operator, s, a, b, c) ==
    CASE operator = 0 -> conditionalMove(s, NatOf(a), NatOf(b), NatOf(c))
      [] operator = 1 -> arrayIndex(s, NatOf(a), NatOf(b), NatOf(c))
      [] operator = 2 -> arrayAmendment(s, NatOf(a), NatOf(b), NatOf(c))
      [] operator = 3 -> addition(s, NatOf(a), NatOf(b), NatOf(c))
      [] operator = 4 -> multiplication(s, NatOf(a), NatOf(b), NatOf(c))
      [] operator = 5 -> division(s, NatOf(a), NatOf(b), NatOf(c))
      [] operator = 6 -> notAnd(s, NatOf(a), NatOf(b), NatOf(c))
      [] operator = 7 -> halt(s, NatOf(a), NatOf(b), NatOf(c))
      [] operator = 8 -> allocation(s, NatOf(a), NatOf(b), NatOf(c))
      [] operator = 9 -> abandonment(s, NatOf(a), NatOf(b), NatOf(c))
      [] operator = 10 -> output(s, NatOf(a), NatOf(b), NatOf(c))
      [] operator = 11 -> input(s, NatOf(a), NatOf(b), NatOf(c))
      [] operator = 12 -> loadProgram(s, NatOf(a), NatOf(b), NatOf(c))
      [] operator = 13 -> orthography(s, NatOf(a), b, c)
      [] OTHER -> Raise(allocation(s, NatOf(a), NatOf(b), NatOf(c)), "IndexError")

\* OPCODE2FN[operator](self, a, b, c); a and b index the registers, except
\* for orthography, whose b is the value.
OPCODE2FN(operator, s, a, b, c) ==
    CASE operator = 0 -> conditionalMove(s, NatOf(a), NatOf(b), NatOf(c))
      [] operator = 1 -> arrayIndex(s, NatOf(a), NatOf(b), NatOf(c))
      [] operator = 2 -> arrayAmendment(s, NatOf(a), NatOf(b), NatOf(c))
      [] operator = 3 -> addition(s, NatOf(a), NatOf(b), NatOf(c))
      [] operator = 4 -> multiplication(s, NatOf(a), NatOf(b), NatOf(c))
      [] operator = 5 -> division(s, NatOf(a), NatOf(b), NatOf(c))
      [] operator = 6 -> notAnd(s, NatOf(a), NatOf(b), NatOf(c))
      [] operator = 7 -> halt(s, NatOf(a), NatOf(b), NatOf(c))
      [] operator = 8 -> allocation(s, NatOf(a), NatOf(b), NatOf(c))
      [] operator = 9 -> abandonment(s, NatOf(a), NatOf(b), NatOf(c))
      [] operator = 10 -> output(s, NatOf(a), NatOf(b), NatOf(c))
      [] operator = 11 -> input(s, NatOf(a), NatOf(b), NatOf(c))
      [] operator = 12 -> loadProgram(s, NatOf(a), NatOf(b), NatOf(c))
      [] operator = 13 -> orthography(s, NatOf(a), b, c)
      [] OTHER -> Raise(s, "IndexError")

\* Whether the fetch of a cycle succeeds: the '0' array is there and the
\* finger is within it.
CanFetch(s) == Zero \in DOMAIN s.platter /\ InRange(ArrayOf(s, Zero), s.finger)

\* The platter the finger indicates.
Fetch(s) == ArrayOf(s, Zero)[NatOf(s.finger) + 1]

\* spinCycle with the finger advanced before the fetch is tried.
spinCycleAdvancesFirst(s) ==
    IF Zero \notin DOMAIN s.platter THEN Raise(s, "KeyError")
    ELSE IF ~InRange(ArrayOf(s, Zero), s.finger)
         THEN Raise([s EXCEPT !.finger = NAdd(@, One)], "AssertionError")
    ELSE LET d == decodeInstruction(Fetch(s))
         IN  OPCODE2FN(NatOf(d[1]), [s EXCEPT !.finger = NAdd(@, One)],
                       d[2], d[3], d[4])

\* One cycle: the machine state after it.
spinCycle(s) ==
    IF Zero \notin DOMAIN s.platter THEN Raise(s, "KeyError")
    ELSE IF ~InRange(ArrayOf(s, Zero), s.finger) THEN Raise(s, "AssertionError")
    ELSE LET d == decodeInstruction(Fetch(s))
         IN  OPCODE2FN(NatOf(d[1]), [s EXCEPT !.finger = NAdd(@, One)],
                       d[2], d[3], d[4])

(***************************************************************************)
(* The program images the machine is constructed with.                     *)
(***************************************************************************)
R(n) == OfNat(n)

\* The instructions the short programs are made of.
Alphabet ==
    { <<"LOAD", R(1), R(1)>>,
      <<"LOAD", R(2), R(2)>>,
      <<"NAND", R(1), R(0), R(0)>>,
      <<"ADD", R(1), R(1), R(1)>>,
      <<"MULT", R(1), R(1), R(1)>>,
      <<"DIV", R(2), R(1), R(1)>>,
      <<"DIV", R(1), R(1), R(2)>>,
      <<"MOVEIF", R(2), R(1), R(1)>>,
      <<"INDEX", R(2), R(0), R(1)>>,
      <<"STORE", R(0), R(0), R(1)>>,
      <<"STORE", R(2), R(0), R(1)>>,
      <<"ALLOC", R(0), R(2), R(1)>>,
      <<"FREE", R(0), R(0), R(2)>>,
      <<"FREE", R(0), R(0), R(0)>>,
      <<"OUTPUT", R(0), R(0), R(1)>>,
      <<"INPUT", R(0), R(0), R(1)>>,
      <<"JUMP", R(0), R(2), R(0)>>,
      <<"JUMP", R(0), R(0), R(0)>>,
      <<"HALT", R(0), R(0), R(0)>> }

AlphabetWords == {assemble1(i) : i \in Alphabet}

\* The images of at most n words over the alphabet.
RECURSIVE ImagesUpTo(_)
ImagesUpTo(n) ==
    IF n = 0 THEN {<< >>}
    ELSE LET prev == ImagesUpTo(n - 1)
         IN  prev \cup {Append(p, w) : p \in {q \in prev : Len(q) = n - 1},
                                       w \in AlphabetWords}

\* Words no operator is registered for: operator numbers 14 and 15.
IllegalWords == {NShl(R(14), 28), NAdd(NShl(R(15), 28), R(83))}

\* A program that jumps over a HALT, allocates an array of three platters,
\* copies its own last platter w to the array's offset 2, loads the array as
\* the program with the finger at offset 2, and so runs w last.
CloneProgram(w) ==
    assemble(<< <<"LOAD", R(5), R(3)>>,
                <<"JUMP", R(0), R(0), R(5)>>,
                <<"HALT", R(0), R(0), R(0)>>,
                <<"ALLOC", R(0), R(2), R(5)>>,
                <<"LOAD", R(1), R(2)>>,
                <<"LOAD", R(3), R(9)>>,
                <<"INDEX", R(4), R(0), R(3)>>,
                <<"STORE", R(2), R(1), R(4)>>,
                <<"JUMP", R(0), R(2), R(1)>>,
                w >>)

CloneEndings ==
    { <<"STORE", R(0), R(0), R(3)>>,
      <<"STORE", R(2), R(0), R(3)>>,
      <<"FREE", R(0), R(0), R(2)>>,
      <<"ALLOC", R(0), R(6), R(1)>> }

\* Allocate, store, allocate again, free the first, allocate a third time.
AllocProgram ==
    assemble(<< <<"LOAD", R(1), R(2)>>,
                <<"ALLOC", R(0), R(2), R(1)>>,
                <<"STORE", R(2), R(0), R(1)>>,
                <<"ALLOC", R(0), R(3), R(1)>>,
                <<"FREE", R(0), R(0), R(2)>>,
                <<"ALLOC", R(0), R(4), R(1)>> >>)

\* Allocate an empty array and abandon it, for ever.
LoopProgram ==
    assemble(<< <<"ALLOC", R(0), R(2), R(1)>>,
                <<"FREE", R(0), R(0), R(2)>>,
                <<"JUMP", R(0), R(0), R(0)>> >>)

\* Sums and products that pass 2^32, into another register and in place.
ArithProgram ==
    assemble(<< <<"NAND", R(1), R(0), R(0)>>,
                <<"LOAD", R(2), <<255, 255, 255, 1>> >>,
                <<"ADD", R(3), R(1), R(2)>>,
                <<"MULT", R(4), R(1), R(3)>>,
                <<"ADD", R(3), R(3), R(3)>>,
                <<"MULT", R(4), R(4), R(4)>> >>)

\* test_nand of test-um.py
NandProgram ==
    assemble(<< <<"LOAD", R(0), R(12)>>,
                <<"LOAD", R(1), R(5)>>,
                <<"NAND", R(2), R(0), R(1)>>,
                <<"HALT", R(0), R(0), R(0)>> >>)

\* 0xFFFFFFFF divided by 2, then by the zero of register 0.
DivProgram ==
    assemble(<< <<"NAND", R(1), R(0), R(0)>>,
                <<"LOAD", R(2), R(2)>>,
                <<"DIV", R(3), R(1), R(2)>>,
                <<"DIV", R(4), R(1), R(0)>> >>)

\* The program that consists of HALT alone.
HaltOnly == <<assemble1(<<"HALT", R(0), R(0), R(0)>>)>>

\* Output "A": the console is given 65, then the machine halts.
OutputProgram ==
    assemble(<< <<"LOAD", R(2), R(65)>>,
                <<"OUTPUT", R(0), R(0), R(2)>>,
                <<"HALT", R(0), R(0), R(0)>> >>)

\* The console is given 256, the least value over a byte, and then 0x110000,
\* the least value over a code point.
WideOutputProgram ==
    assemble(<< <<"LOAD", R(1), R(256)>>,
                <<"OUTPUT", R(0), R(0), R(1)>>,
                <<"LOAD", R(1), <<0, 0, 17>> >>,
                <<"OUTPUT", R(0), R(0), R(1)>>,
                <<"HALT", R(0), R(0), R(0)>> >>)

\* The finger is set to the end of the '0' array, and far beyond it.
JumpOffPrograms ==
    {assemble(<< <<"LOAD", R(1), R(2)>>,
                 <<"JUMP", R(0), R(0), R(1)>> >>),
     assemble(<< <<"NAND", R(1), R(0), R(0)>>,
                 <<"JUMP", R(0), R(0), R(1)>> >>)}

\* An identifier that is not live, or an offset that is not in the array,
\* given to the operator of the last word.
BadRefProgram(w) ==
    assemble(<< <<"LOAD", R(1), R(2)>>,
                <<"ALLOC", R(0), R(2), R(1)>>,
                <<"LOAD", R(3), R(5)>>,
                <<"STORE", R(2), R(0), R(3)>> >>) \o <<w>>

BadRefEndings ==
    {assemble1(i) : i \in
        {<<"INDEX", R(4), R(3), R(0)>>, <<"INDEX", R(4), R(2), R(1)>>,
         <<"INDEX", R(4), R(2), R(3)>>, <<"STORE", R(3), R(0), R(1)>>,
         <<"STORE", R(2), R(1), R(3)>>, <<"FREE", R(0), R(0), R(3)>>,
         <<"JUMP", R(0), R(3), R(0)>>}}

\* Alloc/free round trip: an array of three platters is given 7, 8 and 9,
\* the 8 is read back, the array is abandoned, and the machine halts.
RoundTripProgram ==
    assemble(<< <<"LOAD", R(1), R(3)>>,
                <<"ALLOC", R(0), R(2), R(1)>>,
                <<"LOAD", R(4), R(7)>>,
                <<"STORE", R(2), R(0), R(4)>>,
                <<"LOAD", R(3), R(1)>>,
                <<"LOAD", R(4), R(8)>>,
                <<"STORE", R(2), R(3), R(4)>>,
                <<"LOAD", R(6), R(2)>>,
                <<"LOAD", R(4), R(9)>>,
                <<"STORE", R(2), R(6), R(4)>>,
                <<"INDEX", R(5), R(2), R(3)>>,
                <<"FREE", R(0), R(0), R(2)>>,
                <<"HALT", R(0), R(0), R(0)>> >>)

\* A word with operator number 15 met with registers that are not zero.
IllegalProgram ==
    assemble(<< <<"LOAD", R(2), R(2)>>,
                <<"NAND", R(3), R(2), R(2)>> >>) \o <<NAdd(NShl(R(15), 28), R(83))>>

Images ==
    ImagesUpTo(MaxProg)
    \cup {<<w>> : w \in IllegalWords}
    \cup {CloneProgram(w) : w \in CloneEndings}
    \cup {AllocProgram, LoopProgram, ArithProgram, NandProgram, DivProgram}
    \cup {OutputProgram, WideOutputProgram, RoundTripProgram, IllegalProgram}
    \cup JumpOffPrograms
    \cup {BadRefProgram(w) : w \in BadRefEndings}

\* What the console may deliver to a read: end of input, Ctrl-D, carriage
\* return, "A".
Keys == {EndOfInput, 4, 13, 65}

(***************************************************************************)
(* The state.                                                              *)
(***************************************************************************)
VARIABLES
    platter,    \* self.platter: identifier -> reference
    heap,       \* reference -> list
    finger,     \* self.finger
    nextAlloc,  \* self.nextAlloc
    gpr,        \* self.gpr
    out,        \* what was printed
    status,     \* "running", "halted", or the exception that ended simulate()
    trace,      \* the cycles run so far, each the locals of its spinCycle()
    codec       \* the codec exercised on its own: stage, args, word, decoded

vars == <<platter, heap, finger, nextAlloc, gpr, out, status, trace, codec>>

\* loadScroll(code): the '0' array becomes a new list of the words of code.
loadScroll(s, code) ==
    LET r == NewRef(s.heap)
    IN  Collect([s EXCEPT
            !.heap = [x \in DOMAIN s.heap \cup {r} |->
                         IF x = r THEN code ELSE s.heap[x]],
            !.platter = Bind(s.platter, Zero, r)])

\* Um(code)
Construct(code) ==
    loadScroll([platter |-> (Zero :> 1), heap |-> (1 :> << >>), finger |-> Zero,
                nextAlloc |-> One, gpr |-> [k \in 0..7 |-> Zero],
                out |-> << >>, getch |-> EndOfInput, exc |-> ""],
               code)

Install(s) ==
    /\ platter = s.platter
    /\ heap = s.heap
    /\ finger = s.finger
    /\ nextAlloc = s.nextAlloc
    /\ gpr = s.gpr
    /\ out = s.out

CodecIdle == [stage |-> "idle"]

Init ==
    /\ \E code \in Images : Install(Construct(code))
    /\ status = "running"
    /\ trace = << >>
    /\ codec = CodecIdle

\* The machine state, the console about to deliver ch.
VM(ch) ==
    [platter |-> platter, heap |-> heap, finger |-> finger,
     nextAlloc |-> nextAlloc, gpr |-> gpr, out |-> out, getch |-> ch, exc |-> ""]

\* The operator number of the platter under the finger.
Operator == NatOf(bits(Fetch(VM(EndOfInput)), 0, 4))

\* The locals of a cycle that fetched at the finger of s and decoded d, and
\* for an OUTPUT cycle the value it had for the console; a cycle whose fetch
\* failed has operator -1.
Locals(s, d) ==
    IF CanFetch(s)
    THEN [at |-> s.finger, i |-> Fetch(s), operator |-> NatOf(d[1]),
          a |-> d[2], b |-> d[3], c |-> d[4],
          console |-> IF NatOf(d[1]) = NAME2OP("OUTPUT")
                      THEN s.gpr[NatOf(d[4])] ELSE None]
    ELSE [at |-> s.finger, i |-> Zero, operator |-> -1,
          a |-> Zero, b |-> Zero, c |-> Zero, console |-> None]

\* The state after a cycle that started from s, decoded d and left the
\* machine as r.
Commit(s, d, r) ==
    /\ platter' = r.platter
    /\ heap' = r.heap
    /\ finger' = r.finger
    /\ nextAlloc' = r.nextAlloc
    /\ gpr' = r.gpr
    /\ out' = r.out
    /\ trace' = Append(trace, Locals(s, d))
    /\ status' = IF r.exc # "" THEN r.exc
                 ELSE IF OP2NAME[NatOf(d[1]) + 1] = "HALT" THEN "halted"
                 ELSE "running"
    /\ UNCHANGED codec

\* simulate(): one more turn of the loop, which ends when spinCycle() raises
\* or returns 'HALT'.
Turn(ch) ==
    Commit(VM(ch),
           IF CanFetch(VM(ch)) THEN decodeInstruction(Fetch(VM(ch))) ELSE << >>,
           spinCycle(VM(ch)))

Running == status = "running" /\ Len(trace) < MaxCycles

Dispatches(op) ==
    /\ Running
    /\ CanFetch(VM(EndOfInput))
    /\ Operator = op

MOVEIF == Dispatches(0) /\ Turn(EndOfInput)
INDEX == Dispatches(1) /\ Turn(EndOfInput)
STORE == Dispatches(2) /\ Turn(EndOfInput)
ADD == Dispatches(3) /\ Turn(EndOfInput)
MULT == Dispatches(4) /\ Turn(EndOfInput)
DIV == Dispatches(5) /\ Turn(EndOfInput)
NAND == Dispatches(6) /\ Turn(EndOfInput)
HALT == Dispatches(7) /\ Turn(EndOfInput)
\* An ALLOC of more than MaxArray platters is not followed.
ALLOC ==
    /\ Dispatches(8)
    /\ NLess(gpr[NatOf(bits(Fetch(VM(EndOfInput)), 29, 3))], OfNat(MaxArray + 1))
    /\ Turn(EndOfInput)
FREE == Dispatches(9) /\ Turn(EndOfInput)
OUTPUT == Dispatches(10) /\ Turn(EndOfInput)
INPUT == Dispatches(11) /\ \E ch \in Keys : Turn(ch)
JUMP == Dispatches(12) /\ Turn(EndOfInput)
LOAD == Dispatches(13) /\ Turn(EndOfInput)
\* The operator number is 14 or 15: OPCODE2FN has no such entry.
Unregistered == (Dispatches(14) \/ Dispatches(15)) /\ Turn(EndOfInput)
\* The finger is off the end of the '0' array, or there is no '0' array.
SpunOff == Running /\ ~CanFetch(VM(EndOfInput)) /\ Turn(EndOfInput)

Next ==
    \/ MOVEIF \/ INDEX \/ STORE \/ ADD \/ MULT \/ DIV \/ NAND \/ HALT
    \/ ALLOC \/ FREE \/ OUTPUT \/ INPUT \/ JUMP \/ LOAD
    \/ Unregistered \/ SpunOff

Spec == Init /\ [][Next]_vars

(***************************************************************************)
(* Long runs.  From the head of LoopProgram with the pool holding the '0'  *)
(* array alone, registers 0 and 1 zero and register 2 one less than        *)
(* nextAlloc, one turn of the loop (ALLOC, FREE, JUMP) leads to the same   *)
(* state with nextAlloc and register 2 one more.  ManyTurns is the turns   *)
(* of the loop that take nextAlloc to 2^32 - 1, taken at once; the trace   *)
(* does not record them.                                                   *)
(***************************************************************************)
AtLoopHead ==
    /\ status = "running"
    /\ DOMAIN platter = {Zero}
    /\ heap[platter[Zero]] = LoopProgram
    /\ finger = Zero
    /\ gpr[0] = Zero
    /\ gpr[1] = Zero
    /\ nextAlloc = NAdd(gpr[2], One)

ManyTurns ==
    /\ AtLoopHead
    /\ NLess(nextAlloc, NSub(TWO_32, One))
    /\ nextAlloc' = NSub(TWO_32, One)
    /\ gpr' = [gpr EXCEPT ![2] = NSub(TWO_32, <<2>>)]
    /\ UNCHANGED <<platter, heap, finger, out, status, trace, codec>>

NextLong == Next \/ ManyTurns

SpecLong == Init /\ [][NextLong]_vars

(***************************************************************************)
(* loadScroll called on a machine that has run: the caller gives it the    *)
(* words of another program.  The trace records the call as operator -2.   *)
(***************************************************************************)
\* The most calls of loadScroll a run is followed for.
MaxScrolls == 1

Scrolls == {HaltOnly, AllocProgram}

Scrolled == Cardinality({k \in 1..Len(trace) : trace[k].operator = -2})

LoadScroll(code) ==
    /\ Len(trace) < MaxCycles
    /\ Scrolled < MaxScrolls
    /\ platter' = loadScroll(VM(EndOfInput), code).platter
    /\ heap' = loadScroll(VM(EndOfInput), code).heap
    /\ trace' = Append(trace, [at |-> finger, i |-> Zero, operator |-> -2,
                               a |-> Zero, b |-> Zero, c |-> Zero,
                               console |-> None])
    /\ UNCHANGED <<finger, nextAlloc, gpr, out, status, codec>>

NextScroll == Next \/ \E code \in Scrolls : LoadScroll(code)

SpecScroll == Init /\ [][NextScroll]_vars

(***************************************************************************)
(* The codec on its own: encode the arguments, decode the word.            *)
(***************************************************************************)
\* The 25-bit values whose digits are among 0, 1, 128 and 255.
Immediates ==
    {Norm(<<d1, d2, d3, d4>>) : d1 \in {0, 1, 128, 255}, d2 \in {0, 1, 128, 255},
                                d3 \in {0, 1, 128, 255}, d4 \in {0, 1}}

CodecArgs ==
    {[stage |-> "args", operator |-> R(op), a |-> R(a), b |-> R(b), c |-> R(c)] :
        op \in 0..12, a \in 0..7, b \in 0..7, c \in 0..7}
    \cup {[stage |-> "args", operator |-> R(13), a |-> R(a), b |-> imm, c |-> None] :
        a \in 0..7, imm \in Immediates}

InitCodec ==
    /\ Install(Construct(<< >>))
    /\ status = "running"
    /\ trace = << >>
    /\ codec \in CodecArgs

Encode ==
    /\ codec.stage = "args"
    /\ codec' = [stage |-> "word", operator |-> codec.operator, a |-> codec.a,
                 b |-> codec.b, c |-> codec.c,
                 word |-> IF codec.operator = R(13)
                          THEN encodeValue(codec.operator, codec.a, codec.b)
                          ELSE encodeInstruction(codec.operator, codec.a,
                                                 codec.b, codec.c)]
    /\ UNCHANGED <<platter, heap, finger, nextAlloc, gpr, out, status, trace>>

Decode ==
    /\ codec.stage = "word"
    /\ codec' = [stage |-> "decoded", operator |-> codec.operator, a |-> codec.a,
                 b |-> codec.b, c |-> codec.c, word |-> codec.word,
                 decoded |-> decodeInstruction(codec.word)]
    /\ UNCHANGED <<platter, heap, finger, nextAlloc, gpr, out, status, trace>>

NextCodec == Encode \/ Decode

SpecCodec == InitCodec /\ [][NextCodec]_vars

(***************************************************************************)
(* bits on its own: a word, a start and a length, then the field.          *)
(***************************************************************************)
\* 0b1011, the word of test_bits, 0b1101, and the 32-bit words whose digits
\* are among 0, 0xA5 and 0xFF.
BitsWords ==
    {R(11), R(13)}
    \cup {Norm(<<d1, d2, d3, d4>>) : d1 \in {0, 165, 255}, d2 \in {0, 165, 255},
                                     d3 \in {0, 165, 255}, d4 \in {0, 165, 255}}

BitsArgs ==
    {[stage |-> "bits args", w |-> w, start |-> start, l |-> l] :
        w \in BitsWords, start \in 0..(WORDSIZE - 1), l \in 1..WORDSIZE}

InitBits ==
    /\ Install(Construct(<< >>))
    /\ status = "running"
    /\ trace = << >>
    /\ codec \in {x \in BitsArgs : x.start + x.l <= WORDSIZE}

Extract ==
    /\ codec.stage = "bits args"
    /\ codec' = [stage |-> "field", w |-> codec.w, start |-> codec.start,
                 l |-> codec.l, field |-> bits(codec.w, codec.start, codec.l)]
    /\ UNCHANGED <<platter, heap, finger, nextAlloc, gpr, out, status, trace>>

NextBits == Extract

SpecBits == InitBits /\ [][NextBits]_vars

(***************************************************************************)
(* Properties.                                                             *)
(***************************************************************************)
Live == DOMAIN platter

Contents(id) == heap[platter[id]]

IsWord(x) == NLess(x, TWO_32)

LastCycle == trace[Len(trace)]

\* This step is a cycle that dispatched operator number op.
Did(op) == Len(trace') = Len(trace) + 1 /\ trace'[Len(trace')].operator = op

\* The registers the cycle of this step names, as they were before it.
RA == gpr[NatOf(trace'[Len(trace')].a)]
RB == gpr[NatOf(trace'[Len(trace')].b)]
RC == gpr[NatOf(trace'[Len(trace')].c)]

\* Whether some cycle so far was a load-program from a nonzero identifier
\* still live and still in the register it was named by.
ClonedFrom(id) ==
    \E k \in 1..Len(trace) :
        /\ trace[k].operator = 12
        /\ gpr[NatOf(trace[k].b)] = id
        /\ id # Zero
        /\ id \in Live

\* Every array but `id` is as it was before this step.
OthersKept(id) ==
    \A j \in Live \ {id} : j \in DOMAIN platter' /\ heap'[platter'[j]] = Contents(j)

\* C1: a load-program from a live nonzero identifier leaves that identifier
\* live with its array as it was, and makes the '0' array a list of its own
\* with the same platters; from then on, a store into one array changes no
\* other array and an abandonment drops no other array, so that the '0' array
\* and the array it was copied from never change together.
C1_CloneIsDeep ==
    [][ /\ (Did(12) /\ RB # Zero /\ RB \in Live)
            => /\ status' = "running"
               /\ RB \in DOMAIN platter'
               /\ Zero \in DOMAIN platter'
               /\ platter'[Zero] # platter'[RB]
               /\ heap'[platter'[RB]] = Contents(RB)
               /\ heap'[platter'[Zero]] = Contents(RB)
        /\ (Did(2) /\ status' = "running"
              /\ \E k \in 1..Len(trace) : trace[k].operator = 12)
            => OthersKept(RA)
        /\ (Did(9) /\ status' = "running"
              /\ \E k \in 1..Len(trace) : trace[k].operator = 12)
            => OthersKept(RC)
      ]_vars

\* A store into the '0' array has run after the '0' array was copied from a
\* live array, which still holds what it held.
C1_Witness ==
    /\ status = "running"
    /\ Len(trace) > 1
    /\ LastCycle.operator = 2
    /\ gpr[NatOf(LastCycle.a)] = Zero
    /\ \E id \in Live : ClonedFrom(id) /\ Contents(id) # Contents(Zero)

\* C2: a load-program that succeeds leaves the finger at the value of its
\* register C, and the cycle after it fetches the platter at that offset of
\* the '0' array.
C2_FingerAfterLoad ==
    [][ /\ (Did(12) /\ status' = "running") => finger' = RC
        /\ (/\ Len(trace) > 0
            /\ LastCycle.operator = 12
            /\ status = "running"
            /\ Len(trace') = Len(trace) + 1
            /\ trace'[Len(trace')].operator # -1)
            => /\ trace'[Len(trace')].at = gpr[NatOf(LastCycle.c)]
               /\ trace'[Len(trace')].i
                    = Contents(Zero)[NatOf(gpr[NatOf(LastCycle.c)]) + 1]
      ]_vars

\* A jump within the program and a load of another array have both run, each
\* followed by a fetch away from the platter after the jump.
C2_Witness ==
    /\ \E k \in 1..(Len(trace) - 1) :
          /\ trace[k].operator = 12
          /\ gpr[NatOf(trace[k].b)] = Zero
          /\ trace[k + 1].operator # -1
          /\ trace[k + 1].at # NAdd(trace[k].at, One)
    /\ \E k \in 1..(Len(trace) - 1) :
          /\ trace[k].operator = 12
          /\ gpr[NatOf(trace[k].b)] # Zero
          /\ trace[k + 1].operator # -1
          /\ trace[k + 1].at # NAdd(trace[k].at, One)

\* C3: an ALLOC puts in register B an identifier that is not zero and was not
\* live, bound to a list of its own of R[C] zeros; every array live before is
\* live after, with the platters it had.
C3_AllocFresh ==
    [][ (Did(8) /\ status' = "running")
            => /\ gpr'[NatOf(trace'[Len(trace')].b)] # Zero
               /\ gpr'[NatOf(trace'[Len(trace')].b)] \notin Live
               /\ gpr'[NatOf(trace'[Len(trace')].b)] \in DOMAIN platter'
               /\ heap'[platter'[gpr'[NatOf(trace'[Len(trace')].b)]]]
                    = [k \in 1..NatOf(RC) |-> Zero]
               /\ \A j \in Live :
                     /\ j \in DOMAIN platter'
                     /\ heap'[platter'[j]] = Contents(j)
                     /\ platter'[j] # platter'[gpr'[NatOf(trace'[Len(trace')].b)]]
      ]_vars

\* A third ALLOC has run after a store into the first array and its
\* abandonment: the new array is all zero, the second is as it was.
C3_Witness ==
    /\ status = "running"
    /\ Len(trace) > 4
    /\ LastCycle.operator = 8
    /\ \E k \in 1..Len(trace) : trace[k].operator = 2
    /\ \E k \in 1..Len(trace) : trace[k].operator = 9
    /\ Cardinality({k \in 1..Len(trace) : trace[k].operator = 8}) = 3
    /\ Cardinality(Live) = 3
    /\ Contents(gpr[NatOf(LastCycle.b)]) = <<Zero, Zero>>

\* C4: a FREE with R[C] = 0 ends the run in a trap and leaves the '0' array
\* in the pool.
C4_FreeZeroTraps ==
    [][ (Did(9) /\ RC = Zero)
            => (status' \notin {"running", "halted"} /\ Zero \in DOMAIN platter')
      ]_vars

\* C5: identifier 0 is live in every state.
C5_ZeroAlwaysLive == Zero \in Live

\* C6: every register and every platter of every live array is a Word.
C6_RegistersAreWords ==
    /\ \A r \in 0..7 : IsWord(gpr[r])
    /\ \A id \in Live : \A k \in 1..Len(Contents(id)) : IsWord(Contents(id)[k])

\* The registers other than register a are as they were, and so is the pool.
OnlyRegister(a) ==
    /\ \A r \in 0..7 \ {a} : gpr'[r] = gpr[r]
    /\ platter' = platter
    /\ heap' = heap

\* C7: ADD leaves in register A the Word congruent to R[B] + R[C] modulo 2^32
\* and MULT the Word congruent to R[B] * R[C]; nothing else changes.
C7_ModularArithmetic ==
    [][ /\ Did(3)
            => /\ status' = "running"
               /\ IsWord(gpr'[NatOf(trace'[Len(trace')].a)])
               /\ \/ NAdd(RB, RC) = gpr'[NatOf(trace'[Len(trace')].a)]
                  \/ NAdd(RB, RC) = NAdd(gpr'[NatOf(trace'[Len(trace')].a)], TWO_32)
               /\ OnlyRegister(NatOf(trace'[Len(trace')].a))
        /\ Did(4)
            => /\ status' = "running"
               /\ IsWord(gpr'[NatOf(trace'[Len(trace')].a)])
               /\ NMul(RB, RC)
                    = NAdd(NShl(NShr(NMul(RB, RC), 32), 32),
                           gpr'[NatOf(trace'[Len(trace')].a)])
               /\ OnlyRegister(NatOf(trace'[Len(trace')].a))
      ]_vars

\* ArithProgram has run: its sums and products passed 2^32 and were reduced.
C7_Witness ==
    /\ status = "running"
    /\ Len(trace) = 6
    /\ Contents(Zero) = ArithProgram
    /\ LastCycle.operator = 4
    /\ gpr[3] = <<252, 255, 255, 3>>
    /\ gpr[4] = <<4, 0, 0, 248>>

\* C8: NAND leaves in register A the Word 2^32 - 1 - (R[B] AND R[C]), and
\* nothing else changes; test_nand starts with register 2 zero and halts with
\* register 2 = 0xFFFFFFFB.
C8_Nand ==
    [][ /\ Did(6)
            => /\ status' = "running"
               /\ IsWord(gpr'[NatOf(trace'[Len(trace')].a)])
               /\ NAdd(gpr'[NatOf(trace'[Len(trace')].a)], NAnd(RB, RC))
                    = NSub(TWO_32, One)
               /\ OnlyRegister(NatOf(trace'[Len(trace')].a))
        /\ (Len(trace) = 0 /\ Contents(Zero) = NandProgram) => gpr[2] = Zero
        /\ (Did(7) /\ Contents(Zero) = NandProgram)
            => (status' = "halted" /\ gpr'[2] = <<251, 255, 255, 255>>)
      ]_vars

\* test_nand has halted.
C8_Witness ==
    /\ status = "halted"
    /\ Contents(Zero) = NandProgram
    /\ Len(trace) = 4
    /\ trace[3].operator = 6
    /\ gpr[0] = R(12)
    /\ gpr[1] = R(5)

\* C9: DIV with R[C] = 0 ends the run in ZeroDivisionError with the registers
\* and the pool as they were; otherwise register A receives the Word q with
\* q * R[C] <= R[B] < q * R[C] + R[C], and nothing else changes.
C9_Division ==
    [][ Did(5)
            => IF RC = Zero
               THEN /\ status' = "ZeroDivisionError"
                    /\ gpr' = gpr
                    /\ platter' = platter
                    /\ heap' = heap
               ELSE /\ status' = "running"
                    /\ IsWord(gpr'[NatOf(trace'[Len(trace')].a)])
                    /\ ~NLess(RB, NMul(gpr'[NatOf(trace'[Len(trace')].a)], RC))
                    /\ NLess(RB, NAdd(NMul(gpr'[NatOf(trace'[Len(trace')].a)], RC), RC))
                    /\ OnlyRegister(NatOf(trace'[Len(trace')].a))
      ]_vars

\* DivProgram has run: 0xFFFFFFFF // 2 = 0x7FFFFFFF, then the division by
\* zero that ended the run.
C9_Witness ==
    /\ status = "ZeroDivisionError"
    /\ Contents(Zero) = DivProgram
    /\ Len(trace) = 4
    /\ LastCycle.operator = 5
    /\ gpr[3] = <<255, 255, 255, 127>>
    /\ gpr[4] = Zero

\* C10: decoding the word encoded from an operator number in 0..12 and three
\* registers gives them back; decoding the word encoded from operator number
\* 13, a register and a 25-bit value gives 13, the register and the value.
C10_RoundTrip ==
    codec.stage = "decoded"
        => IF codec.operator = R(13)
           THEN /\ codec.decoded[1] = R(13)
                /\ codec.decoded[2] = codec.a
                /\ codec.decoded[3] = codec.b
           ELSE codec.decoded = <<codec.operator, codec.a, codec.b, codec.c>>

\* The largest immediate has been encoded for register 7 and decoded, the
\* word having all its bits used.
C10_Witness ==
    /\ codec.stage = "decoded"
    /\ codec.operator = R(13)
    /\ codec.a = R(7)
    /\ codec.b = <<255, 255, 255, 1>>
    /\ codec.word = <<255, 255, 255, 223>>

\* The fields test_bits expects of 0b1011, and those of 0b1101.
BitsExamples ==
    {<<R(11), 28, 1, R(1)>>, <<R(11), 28, 2, R(2)>>, <<R(11), 28, 3, R(5)>>,
     <<R(11), 27, 4, R(5)>>, <<R(11), 27, 5, R(11)>>,
     <<R(13), 28, 1, R(1)>>, <<R(13), 28, 2, R(3)>>, <<R(13), 28, 3, R(6)>>,
     <<R(13), 27, 4, R(6)>>, <<R(13), 27, 5, R(13)>>}

\* C11: for a 32-bit word w and start + l <= 32 with l >= 1, bits(w, start, l)
\* is floor(w / 2^(32 - start - l)) mod 2^l; of 0b1101 the fields (28,1),
\* (28,2), (28,3), (27,4), (27,5) are 1, 3, 6, 6, 13 and of 0b1011 they are
\* 1, 2, 5, 5, 11.
C11_BitField ==
    codec.stage = "field"
        => /\ codec.field
                = NMod(NFloorDiv(codec.w,
                                 NShl(One, WORDSIZE - codec.start - codec.l)),
                       NShl(One, codec.l))
           /\ \A e \in BitsExamples :
                (codec.w = e[1] /\ codec.start = e[2] /\ codec.l = e[3])
                    => codec.field = e[4]

\* The field (27, 5) of 0b1101 has been extracted.
C11_Witness ==
    /\ codec.stage = "field"
    /\ codec.w = R(13)
    /\ codec.start = 27
    /\ codec.l = 5
    /\ codec.field = R(13)

\* C12: OUTPUT with R[C] > 255 ends the run in a trap and gives the console
\* nothing; with R[C] in 0..255 it gives the console the byte R[C].
C12_OutputRange ==
    [][ Did(10)
            => IF NLess(R(255), RC)
               THEN status' \notin {"running", "halted"} /\ out' = out
               ELSE status' = "running" /\ out' = Append(out, NatOf(RC))
      ]_vars

\* A cycle is about to fetch a word whose top four bits are 14 or 15.
FetchesIllegal ==
    /\ status = "running"
    /\ CanFetch(VM(EndOfInput))
    /\ ~NLess(Fetch(VM(EndOfInput)), NShl(R(14), 28))

\* C13: a cycle that fetches a word whose top four bits are 14 or 15 ends the
\* run in a trap, and no operator has run: the registers, the pool, the
\* identifier counter and the console are as they were.
C13_IllegalOpcode ==
    [][ FetchesIllegal
            => /\ status' = "IndexError"
               /\ gpr' = gpr
               /\ platter' = platter
               /\ heap' = heap
               /\ nextAlloc' = nextAlloc
               /\ out' = out
      ]_vars

\* IllegalProgram met its word of operator number 15 with registers 2 and 3
\* loaded, and the run ended there.
C13_Witness ==
    /\ status = "IndexError"
    /\ Contents(Zero) = IllegalProgram
    /\ Len(trace) = 3
    /\ LastCycle.operator = 15
    /\ gpr[2] = R(2)
    /\ gpr[3] = <<253, 255, 255, 255>>

\* A cycle is about to begin with the finger at or beyond the end of the
\* '0' array.
FingerOff ==
    /\ status = "running"
    /\ Zero \in Live
    /\ ~NLess(finger, OfNat(Len(Contents(Zero))))

\* C14: a cycle that begins with the finger at or beyond the end of the '0'
\* array ends the run in a trap; no word is fetched, no operator runs, and
\* the finger, the registers and the arrays are as they were.
C14_FingerOutOfRange ==
    [][ FingerOff
            => /\ status' = "AssertionError"
               /\ trace'[Len(trace')].operator = -1
               /\ finger' = finger
               /\ gpr' = gpr
               /\ platter' = platter
               /\ heap' = heap
               /\ nextAlloc' = nextAlloc
               /\ out' = out
      ]_vars

\* JUMP set the finger to 0xFFFFFFFF, far beyond the two platters of the '0'
\* array, and the next cycle ended the run.
C14_Witness ==
    /\ status = "AssertionError"
    /\ Len(trace) = 3
    /\ trace[2].operator = 12
    /\ LastCycle.operator = -1
    /\ Len(Contents(Zero)) = 2
    /\ finger = <<255, 255, 255, 255>>

\* The identifier names no live array.
NotLive(id) == id \notin Live

\* The offset is not in the array the live identifier names.
Outside(id, offset) == ~NLess(offset, OfNat(Len(Contents(id))))

\* The run has ended in a trap, and the registers and arrays are as they were.
TrappedUnchanged ==
    /\ status' \notin {"running", "halted"}
    /\ gpr' = gpr
    /\ platter' = platter
    /\ heap' = heap

\* C15: INDEX, ASTORE, FREE or LPROG given an identifier that is not live, and
\* INDEX or ASTORE given an offset at or beyond the length of the array, end
\* the run in a trap and leave every register and every array unchanged.
C15_BadReferences ==
    [][ /\ (Did(1) /\ (NotLive(RB) \/ Outside(RB, RC))) => TrappedUnchanged
        /\ (Did(2) /\ (NotLive(RA) \/ Outside(RA, RB))) => TrappedUnchanged
        /\ (Did(9) /\ NotLive(RC)) => TrappedUnchanged
        /\ (Did(12) /\ NotLive(RB)) => TrappedUnchanged
      ]_vars

\* BadRefProgram allocated an array of two platters, stored 5 in it, and then
\* asked INDEX for offset 5 of it.
C15_Witness ==
    /\ status = "IndexError"
    /\ Len(trace) = 5
    /\ Contents(Zero) = BadRefProgram(assemble1(<<"INDEX", R(4), R(2), R(3)>>))
    /\ LastCycle.operator = 1
    /\ Contents(One) = <<R(5), Zero>>
    /\ gpr[4] = Zero

\* C16: the run returns exactly when a HALT has been dispatched; the HALT
\* cycle changes no register and no array; no cycle follows it; and the
\* program that consists of HALT alone halts after one cycle with the eight
\* registers zero.
C16_HaltEndsRun ==
    [][ /\ Did(7)
            => /\ status' = "halted"
               /\ gpr' = gpr
               /\ platter' = platter
               /\ heap' = heap
        /\ status' = "halted" => Did(7)
        /\ status # "halted"
        /\ (Len(trace) = 0 /\ Contents(Zero) = HaltOnly)
            => /\ status' = "halted"
               /\ Len(trace') = 1
               /\ \A r \in 0..7 : gpr'[r] = Zero
      ]_vars

\* A HALT met after registers were loaded and an array allocated has ended
\* the run.
C16_Witness ==
    /\ status = "halted"
    /\ Contents(Zero) = RoundTripProgram
    /\ LastCycle.operator = 7
    /\ Len(trace) = Len(RoundTripProgram)
    /\ gpr[5] = R(8)

\* C17: an INPUT cycle for which the console is at end of input, or delivers
\* the byte 4, leaves 0xFFFFFFFF in register C and the run goes on; for any
\* other byte it leaves the value of the byte, 10 for a carriage return (13).
C17_EofSentinel ==
    [][ \A ch \in Keys :
            (Dispatches(11) /\ Turn(ch))
                => /\ status' = "running"
                   /\ gpr'[NatOf(trace'[Len(trace')].c)]
                        = IF ch \in {EndOfInput, 4} THEN NSub(TWO_32, One)
                          ELSE IF ch = 13 THEN R(10)
                          ELSE OfNat(ch)
      ]_vars

\* The values the OUTPUT cycles of a trace had for the console, in order.
RECURSIVE Outputs(_)
Outputs(t) ==
    IF t = << >> THEN << >>
    ELSE LET rest == Outputs(SubSeq(t, 1, Len(t) - 1))
             last == t[Len(t)]
         IN  IF last.operator = 10 THEN Append(rest, NatOf(last.console))
             ELSE rest

\* C18: when the run has ended in HALT, the console holds exactly the R[C]
\* values of the OUTPUT cycles, in the order of execution, and nothing any
\* other operator wrote; LOAD r2,65; OUTPUT r2; HALT leaves the one byte 65.
C18_ConsoleIsOutputs ==
    status = "halted"
        => /\ out = Outputs(trace)
           /\ Contents(Zero) = OutputProgram => out = <<65>>

\* The elements of the array an identifier names after the step.
ContentsAfter(id) == heap'[platter'[id]]

\* C19: a successful ASTORE makes the platter at its offset of its array the
\* value stored and changes no other platter of any live array, no register
\* and no identifier; an INDEX reads the platter as it is; a platter of a
\* live array changes only by an ASTORE to it or, in the '0' array, by LPROG,
\* and an array stops being live only by a FREE of it; a successful FREE
\* removes its identifier, and no other, from the live ones; the alloc/free
\* round trip ends with 8 in the register and identifier 0 alone live.
C19_StoreIndexRoundTrip ==
    [][ /\ (Did(2) /\ status' = "running")
            => /\ DOMAIN platter' = Live
               /\ gpr' = gpr
               /\ \A id \in Live :
                    /\ Len(ContentsAfter(id)) = Len(Contents(id))
                    /\ \A k \in 1..Len(Contents(id)) :
                        ContentsAfter(id)[k]
                            = IF id = RA /\ k = NatOf(RB) + 1 THEN RC
                              ELSE Contents(id)[k]
        /\ (Did(1) /\ status' = "running")
            => gpr'[NatOf(trace'[Len(trace')].a)] = Contents(RB)[NatOf(RC) + 1]
        /\ \A id \in Live :
            IF id \in DOMAIN platter'
            THEN \/ id = Zero /\ Did(12)
                 \/ /\ Len(ContentsAfter(id)) = Len(Contents(id))
                    /\ \A k \in 1..Len(Contents(id)) :
                        \/ ContentsAfter(id)[k] = Contents(id)[k]
                        \/ Did(2) /\ id = RA /\ k = NatOf(RB) + 1
            ELSE Did(9) /\ id = RC
        /\ (Did(9) /\ status' = "running")
            => DOMAIN platter' = Live \ {RC}
        /\ (status' = "halted" /\ Contents(Zero) = RoundTripProgram)
            => gpr'[5] = R(8) /\ DOMAIN platter' = {Zero}
      ]_vars

\* The round trip has stored 7, 8 and 9 in array 1 and read the 8 back.
C19_Witness ==
    /\ status = "running"
    /\ Len(trace) = 11
    /\ LastCycle.operator = 1
    /\ Live = {Zero, One}
    /\ Contents(Zero) = RoundTripProgram
    /\ Contents(One) = <<R(7), R(8), R(9)>>
    /\ gpr[5] = R(8)

\* C20: loadScroll, called in any state of the machine, makes the given
\* words the '0' array, leaves identifier 0 the only live identifier, and
\* makes 1 the next identifier to be allocated.
C20_LoadScrollClears ==
    [][ \A code \in Scrolls :
            LoadScroll(code)
                => /\ DOMAIN platter' = {Zero}
                   /\ ContentsAfter(Zero) = code
                   /\ nextAlloc' = One
      ]_vars

=============================================================================
